---- MODULE Spec2Model ----
(***************************************************************************)
(* BatchTransactionContract (the batch executor), the SimpleStorage mock   *)
(* it is tested against, and the accounts that call them, as a state       *)
(* machine over the chain state.  One action is one top-level transaction, *)
(* executed whole: every nested call frame it opens, every revert and the  *)
(* final refund are part of the action.                                    *)
(*                                                                         *)
(* Native value is counted in units of 0.001 ether (SimpleStorage.fee).    *)
(* Network fees are left out.  Value enters an account only through a      *)
(* call or a transfer: forced credits (self-destructing senders, block     *)
(* rewards) exist only as the balance the executor holds initially.        *)
(***************************************************************************)
EXTENDS Integers, Sequences, FiniteSets

VARIABLES
    balance,      \* native balance of every account
    storedData,   \* SimpleStorage.storedData
    tx,           \* the transaction at the head of the chain: its input,
                  \* the chain state it started from, its receipt and the
                  \* values of executeBatch's locals when it ended
    allowance,    \* per token, what the signer lets the executor spend
    mempool,      \* the signer's transactions sent and not yet mined
    transactionList,            \* BatchTransactionSDK.transactionList
    approvalTransactionsList,   \* BatchTransactionSDK.approvalTransactionsList
    execution,    \* where executeBatchTransaction() stands, and how the
                  \* latest call of the SDK ended
    approvals,    \* per token, where the approval callback of
                  \* executeBatchTransaction() stands
    script        \* the program that calls the SDK: where it stands

chain  == <<balance, storedData, tx, allowance>>
sdk ==
    <<mempool, transactionList, approvalTransactionsList, execution, approvals>>
client == <<sdk, script>>
vars   == <<chain, client>>

(***************************************************************************)
(* Bounds                                                                  *)
(***************************************************************************)
MaxBatch     == 2   \* longest batch of sub-calls of mixed kinds
InitialFunds == 3   \* what the funded externally-owned account starts with
MaxHeld      == 1   \* most the executor holds before the first transaction
MaxPending   == 2   \* longest transactionList the SDK's caller builds
MaxRequired  == 1   \* most the SDK's caller lets a token's approval grow to

(***************************************************************************)
(* Accounts                                                                *)
(***************************************************************************)
Alice == "alice"      \* externally-owned account, funded
Bob   == "bob"        \* externally-owned account, a fresh recipient
Carol == "carol"      \* externally-owned account, a second fresh recipient
Exec  == "executor"   \* BatchTransactionContract
Store == "storage"    \* SimpleStorage
Relay == "relay"      \* a target contract that calls back into the executor
TokenA == "tokenA"    \* MockToken
TokenB == "tokenB"    \* a second deployment of MockToken

EOA      == {Alice, Bob, Carol}
Tokens   == {TokenA, TokenB}
Accounts == {Alice, Bob, Carol, Exec, Store, Relay} \cup Tokens
Callers  == {Alice, Bob}   \* the accounts that send transactions

Fee == 1              \* SimpleStorage.fee, 0.001 ether
TransferAmount == 10  \* what the transfer test sends each recipient, 0.01 ether

(***************************************************************************)
(* Calldata, return data and revert data                                   *)
(***************************************************************************)
NoCalldata      == [fn |-> "none"]                  \* "0x"
UnknownCalldata == [fn |-> "unknown"]               \* matches no function
SetCall(x)      == [fn |-> "set", x |-> x]
WithdrawCall    == [fn |-> "withdraw"]
BatchCall(t, d, a) ==
    [fn |-> "executeBatch", targets |-> t, data |-> d, amount |-> a]
RelayCall(inner, v) == [fn |-> "relay", inner |-> inner, value |-> v]
ApproveCall(spender, v) == [fn |-> "approve", spender |-> spender, value |-> v]
TransferFromCall(from, to, v) ==
    [fn |-> "transferFrom", from |-> from, to |-> to, value |-> v]

NoData      == [sig |-> "empty"]
Error(s)    == [sig |-> "Error", reason |-> s]
Panic       == [sig |-> "Panic"]
True        == [sig |-> "bool", value |-> TRUE]
\* BatchReturnLastFirst: the outcomes handed back from the last to the first.
BatchReturnLastFirst(success, results) ==
    [sig |-> "return",
     success |-> [i \in 1..Len(success) |-> success[Len(success) + 1 - i]],
     results |-> [i \in 1..Len(results) |-> results[Len(results) + 1 - i]]]
BatchReturn(success, results) ==
    [sig |-> "return", success |-> success, results |-> results]

MalformedRequest      == Error("Mismatched inputs")
SubcallFailedMessage  ==
    "One of the transactions failed. Reverting all transactions."
InsufficientFunds     ==
    Error("ETH exceeded: Insufficient funds for transactions")
NothingToWithdraw     == Error("No funds to withdraw")
DirectPaymentRejected == Error("Direct payments not allowed")
InsufficientFee       == Error("Insufficient fee provided")
InsufficientAllowance == [sig |-> "ERC20InsufficientAllowance"]

(***************************************************************************)
(* Events                                                                  *)
(***************************************************************************)
OperationExecuted(target, success, data) ==
    [event |-> "OperationExecuted", target |-> target,
     success |-> success, data |-> data]
DataStored(x) == [event |-> "DataStored", data |-> x]

(***************************************************************************)
(* Call frames.  A frame works on a chain state st = [balance, storedData, *)
(* logs] and ends with a result: ok, the state it leaves, its return or    *)
(* revert data, and (for executeBatch) the values of its locals.           *)
(***************************************************************************)
NoLocals ==
    [invoked |-> 0, failedAt |-> 0, subData |-> NoData, heldAtFailure |-> 0,
     completed |-> FALSE, initialBalance |-> 0, finalBalance |-> 0,
     refund |-> 0]

Return(st, data, locals) ==
    [ok |-> TRUE, st |-> st, data |-> data, locals |-> locals]

\* A reverting frame leaves the state it was entered with (entry), not the
\* state it had reached (cur).  RevertFrameKeeping: what a frame without
\* rollback would leave.
RevertFrameKeeping(entry, cur, data, locals) ==
    [ok |-> FALSE, st |-> cur, data |-> data, locals |-> locals]
RevertFrame(entry, cur, data, locals) ==
    [ok |-> FALSE, st |-> entry, data |-> data, locals |-> locals]

\* Moving value between accounts (a self-transfer changes nothing).
Move(st, from, to, v) ==
    [st EXCEPT !.balance =
        [a \in Accounts |->
            st.balance[a] - (IF a = from THEN v ELSE 0)
                          + (IF a = to THEN v ELSE 0)]]

\* EmitFirst: the event put ahead of the earlier ones.
EmitFirst(st, e) == [st EXCEPT !.logs = <<e>> \o @]
Emit(st, e) == [st EXCEPT !.logs = Append(@, e)]

\* Whether an account takes a plain transfer within the 2300 gas stipend:
\* accounts without code and the relay do; the executor's receive() reverts
\* and SimpleStorage has neither receive() nor fallback().
\* AcceptsTransferAlways: every account takes it.
AcceptsTransferAlways(a) == TRUE
AcceptsTransfer(a) == a \in EOA \cup {Relay}

\* payable(to).transfer(v), run by the executor: a failure carries the
\* recipient's revert data.
TransferFailure(to) == IF to = Exec THEN DirectPaymentRejected ELSE NoData

(***************************************************************************)
(* SimpleStorage                                                           *)
(***************************************************************************)
StoreOwner == Alice   \* the deployer

SimpleStorageCall(entry, st, sender, calldata, value) ==
    CASE calldata.fn = "set" ->
            IF value # Fee
            THEN RevertFrame(entry, st, InsufficientFee, NoLocals)
            ELSE Return(Emit([st EXCEPT !.storedData = calldata.x],
                             DataStored(calldata.x)),
                        NoData, NoLocals)
      [] calldata.fn = "withdraw" ->
            IF value > 0
            THEN RevertFrame(entry, st, NoData, NoLocals)
            ELSE IF sender # StoreOwner
            THEN RevertFrame(entry, st, Error("Only owner can withdraw"),
                             NoLocals)
            ELSE IF st.balance[Store] = 0
            THEN RevertFrame(entry, st, NothingToWithdraw, NoLocals)
            ELSE Return(Move(st, Store, StoreOwner, st.balance[Store]),
                        NoData, NoLocals)
      [] OTHER -> RevertFrame(entry, st, NoData, NoLocals)

(***************************************************************************)
(* MockToken: the ERC20 functions the SDK encodes.  Only the allowance the *)
(* signer gives the executor is kept; every other allowance is zero.  The  *)
(* signer holds more tokens than are ever transferred (1000 are minted to  *)
(* it), so token balances are left out.                                    *)
(***************************************************************************)
Signer == Alice   \* the account of the SDK's private key

Allowed(st, token, owner, spender) ==
    IF owner = Signer /\ spender = Exec THEN st.allowance[token] ELSE 0

approve(st, token, owner, spender, v) ==
    IF owner = Signer /\ spender = Exec
    THEN [st EXCEPT !.allowance[token] = v]
    ELSE st

transferFrom(st, token, spender, from, to, v) ==
    [st EXCEPT
        !.allowance[token] =
            IF from = Signer /\ spender = Exec THEN @ - v ELSE @]

MockTokenCall(entry, st, sender, token, calldata, value) ==
    IF value > 0
    THEN RevertFrame(entry, st, NoData, NoLocals)
    ELSE
    CASE calldata.fn = "approve" ->
            Return(approve(st, token, sender, calldata.spender,
                           calldata.value),
                   True, NoLocals)
      [] calldata.fn = "transferFrom" ->
            IF Allowed(st, token, calldata.from, sender) < calldata.value
            THEN RevertFrame(entry, st, InsufficientAllowance, NoLocals)
            ELSE Return(transferFrom(st, token, sender, calldata.from,
                                     calldata.to, calldata.value),
                        True, NoLocals)
      [] OTHER -> RevertFrame(entry, st, NoData, NoLocals)

(***************************************************************************)
(* BatchTransactionContract                                                *)
(***************************************************************************)
RECURSIVE CallAccount(_, _, _, _, _)
RECURSIVE RunCalls(_, _, _, _, _, _, _)

\* require(targets.length == data.length); require(targets.length ==
\* amount.length).  WellFormedIgnoringAmount: the first require alone.
WellFormedIgnoringAmount(targets, data, amount) == Len(targets) = Len(data)
WellFormed(targets, data, amount) ==
    Len(targets) = Len(data) /\ Len(targets) = Len(amount)

\* for (uint256 i = 0; i < targets.length; i++): the index visited at each
\* position of the loop.  CallOrderReversed: the loop run from the end.
CallOrderReversed(n) == [k \in 1..n |-> n + 1 - k]
CallOrder(n) == [k \in 1..n |-> k]

\* revert("One of the transactions failed. Reverting all transactions.")
\* SubcallFailedBubbling: the sub-call's revert data passed on instead.
SubcallFailedBubbling(i, data) == data
SubcallFailed(i, data) == Error(SubcallFailedMessage)

\* The loop of executeBatch from position k on.  success and results are
\* the arrays being filled.
RunCalls(st, k, targets, data, amount, success, results) ==
    IF k > Len(targets)
    THEN [ok |-> TRUE, st |-> st, success |-> success, results |-> results,
          invoked |-> k - 1, failedAt |-> 0, subData |-> NoData,
          heldAtFailure |-> 0, panic |-> FALSE]
    ELSE LET i == CallOrder(Len(targets))[k] IN
         IF i > Len(data) \/ i > Len(amount)
         THEN [ok |-> FALSE, st |-> st, success |-> success,
               results |-> results, invoked |-> k - 1, failedAt |-> 0,
               subData |-> NoData, heldAtFailure |-> 0, panic |-> TRUE]
         ELSE LET r == CallAccount(st, Exec, targets[i], data[i], amount[i])
              IN  IF ~r.ok
                  THEN [ok |-> FALSE, st |-> st, success |-> success,
                        results |-> [results EXCEPT ![i] = r.data],
                        invoked |-> k, failedAt |-> i, subData |-> r.data,
                        heldAtFailure |-> st.balance[Exec], panic |-> FALSE]
                  ELSE RunCalls(
                         Emit(r.st, OperationExecuted(targets[i], TRUE, r.data)),
                         k + 1, targets, data, amount,
                         [success EXCEPT ![i] = TRUE],
                         [results EXCEPT ![i] = r.data])

\* uint256 initialBalance = address(this).balance - msg.value
\* InitialBalanceWithValue: the attached value counted in.
InitialBalanceWithValue(st, value) == st.balance[Exec]
InitialBalance(st, value) == st.balance[Exec] - value

\* if (initialBalance > finalBalance) revert.  DrainedNever: no check.
DrainedNever(initialBalance, finalBalance) == FALSE
Drained(initialBalance, finalBalance) == initialBalance > finalBalance

\* uint256 difference = finalBalance - initialBalance.  DifferenceWhole: the
\* whole balance taken for the surplus.
DifferenceWhole(finalBalance, initialBalance) == finalBalance
Difference(finalBalance, initialBalance) == finalBalance - initialBalance

\* executeBatch, entered with msg.value already credited (st); entry is
\* the state before the call.
executeBatch(entry, st, sender, value, targets, data, amount) ==
    IF ~WellFormed(targets, data, amount)
    THEN RevertFrame(entry, st, MalformedRequest, NoLocals)
    ELSE
    LET initialBalance == InitialBalance(st, value)
        n   == Len(targets)
        run == RunCalls(st, 1, targets, data, amount,
                        [i \in 1..n |-> FALSE], [i \in 1..n |-> NoData])
        inLoop == [NoLocals EXCEPT !.invoked = run.invoked,
                                   !.failedAt = run.failedAt,
                                   !.subData = run.subData,
                                   !.heldAtFailure = run.heldAtFailure,
                                   !.initialBalance = initialBalance]
    IN  IF ~run.ok
        THEN RevertFrame(entry, run.st,
                         IF run.panic THEN Panic
                         ELSE SubcallFailed(run.failedAt, run.subData),
                         inLoop)
        ELSE
        LET finalBalance == run.st.balance[Exec]
            afterLoop == [inLoop EXCEPT !.completed = TRUE,
                                        !.finalBalance = finalBalance]
        IN  IF Drained(initialBalance, finalBalance)
            THEN RevertFrame(entry, run.st, InsufficientFunds, afterLoop)
            ELSE
            LET difference == Difference(finalBalance, initialBalance)
                outcome == BatchReturn(run.success, run.results)
            IN  IF difference > 0
                THEN IF AcceptsTransfer(sender)
                     THEN Return(Move(run.st, Exec, sender, difference),
                                 outcome,
                                 [afterLoop EXCEPT !.refund = difference])
                     ELSE RevertFrame(entry, run.st, TransferFailure(sender),
                                      afterLoop)
                ELSE Return(run.st, outcome, afterLoop)

\* withdraw(): not payable; require(balance > 0); transfer(balance).
\* WithdrawAmountHalf: a transfer of part of the balance.
WithdrawAmountHalf(st) == st.balance[Exec] \div 2
WithdrawAmount(st) == st.balance[Exec]

withdraw(entry, st, sender, value) ==
    IF value > 0
    THEN RevertFrame(entry, st, NoData, NoLocals)
    ELSE IF ~(st.balance[Exec] > 0)
    THEN RevertFrame(entry, st, NothingToWithdraw, NoLocals)
    ELSE IF AcceptsTransfer(sender)
    THEN Return(Move(st, Exec, sender, WithdrawAmount(st)), NoData, NoLocals)
    ELSE RevertFrame(entry, st, TransferFailure(sender), NoLocals)

\* receive() and fallback().  rejectPaymentAccepting: a receive() that
\* takes the payment.
rejectPaymentAccepting(entry, st) == Return(st, NoData, NoLocals)
rejectPayment(entry, st) ==
    RevertFrame(entry, st, DirectPaymentRejected, NoLocals)

ExecutorCall(entry, st, sender, calldata, value) ==
    CASE calldata.fn = "executeBatch" ->
            executeBatch(entry, st, sender, value, calldata.targets,
                         calldata.data, calldata.amount)
      [] calldata.fn = "withdraw" -> withdraw(entry, st, sender, value)
      [] OTHER -> rejectPayment(entry, st)

(***************************************************************************)
(* A target that calls back into the executor: relay(inner, v) forwards    *)
(* the calldata inner to the executor with v attached and fails when the   *)
(* executor does; receive() takes any payment.                             *)
(***************************************************************************)
RelayTarget(entry, st, sender, calldata, value) ==
    CASE calldata.fn = "none" -> Return(st, NoData, NoLocals)
      [] calldata.fn = "relay" ->
            LET r == CallAccount(st, Relay, Exec, calldata.inner,
                                 calldata.value)
            IN  IF r.ok THEN Return(r.st, r.data, NoLocals)
                ELSE RevertFrame(entry, st, r.data, NoLocals)
      [] OTHER -> RevertFrame(entry, st, NoData, NoLocals)

\* target.call{value: value}(calldata) made by sender
CallAccount(st, sender, target, calldata, value) ==
    IF st.balance[sender] < value
    THEN RevertFrame(st, st, NoData, NoLocals)
    ELSE LET credited == Move(st, sender, target, value) IN
         CASE target \in EOA -> Return(credited, NoData, NoLocals)
           [] target = Store ->
                SimpleStorageCall(st, credited, sender, calldata, value)
           [] target = Exec ->
                ExecutorCall(st, credited, sender, calldata, value)
           [] target = Relay ->
                RelayTarget(st, credited, sender, calldata, value)
           [] target \in Tokens ->
                MockTokenCall(st, credited, sender, target, calldata, value)

(***************************************************************************)
(* Transactions.  Every transaction is sent by an externally-owned account *)
(* to the executor.                                                        *)
(***************************************************************************)
TestWrites == <<42, 84, 126>>   \* the values the storage test writes

SubCall(target, data, amount) ==
    [target |-> target, data |-> data, amount |-> amount]

\* calls of SimpleStorage: set(x) with the fee attached, and one without
StorageCalls ==
    {SubCall(Store, SetCall(TestWrites[i]), Fee) : i \in DOMAIN TestWrites}
    \cup {SubCall(Store, SetCall(TestWrites[2]), 0)}

\* the other sub-calls batches are made of: a plain transfer, a paid set,
\* a target that withdraws from the executor, a target that runs a nested
\* batch, and the executor calling its own withdraw
OtherCalls ==
    { SubCall(Bob, NoCalldata, 1),
      SubCall(Store, SetCall(TestWrites[1]), Fee),
      SubCall(Relay, RelayCall(WithdrawCall, 0), 0),
      SubCall(Relay,
              RelayCall(BatchCall(<<Bob>>, <<NoCalldata>>, <<1>>), 1), 1),
      SubCall(Exec, WithdrawCall, 0) }

SeqsUpTo(S, n) == UNION {[1..k -> S] : k \in 0..n}

\* batches of as many storage calls as the test makes, and batches of up
\* to MaxBatch other sub-calls
Batches ==
    SeqsUpTo(StorageCalls, Len(TestWrites)) \cup SeqsUpTo(OtherCalls, MaxBatch)

Request(targets, data, amount) ==
    [targets |-> targets, data |-> data, amount |-> amount]

Targets(b) == [i \in 1..Len(b) |-> b[i].target]
Payloads(b) == [i \in 1..Len(b) |-> b[i].data]
Amounts(b) == [i \in 1..Len(b) |-> b[i].amount]
Front(s) == SubSeq(s, 1, Len(s) - 1)

\* the first k writes of the test, each with the fee
TestBatch(k) ==
    [i \in 1..k |-> SubCall(Store, SetCall(TestWrites[i]), Fee)]

\* what executeBatch may be called with: three arrays of equal length, or
\* (the test's writes) with data or amount one entry short
Requests ==
    {Request(Targets(b), Payloads(b), Amounts(b)) : b \in Batches}
    \cup {Request(Targets(TestBatch(k)), Front(Payloads(TestBatch(k))),
                  Amounts(TestBatch(k))) : k \in DOMAIN TestWrites}
    \cup {Request(Targets(TestBatch(k)), Payloads(TestBatch(k)),
                  Front(Amounts(TestBatch(k)))) : k \in DOMAIN TestWrites}

RECURSIVE Sum(_)
Sum(s) == IF s = <<>> THEN 0 ELSE Head(s) + Sum(Tail(s))

\* the value attached to a request: the sum of its amounts, one more, or
\* one less
AttachedValues(req) ==
    {v \in {Sum(req.amount) - 1, Sum(req.amount), Sum(req.amount) + 1} :
        v >= 0}

NoTx == [op |-> "none"]

\* the tokens before any is approved
NoTokens == allowance = [t \in Tokens |-> 0]

\* the SDK as its constructor leaves it, with no call in progress
EmptyObject == [t \in {} |-> 0]
NoScript == [at |-> "none"]
Ended(outcome) == [pc |-> "idle", outcome |-> outcome]
Idle == Ended("none")
Constructed ==
    /\ approvalTransactionsList = EmptyObject
    /\ transactionList = <<>>
    /\ mempool = <<>>
    /\ execution = Idle
    /\ approvals = EmptyObject
    /\ script = NoScript

Chain ==
    [balance |-> balance, storedData |-> storedData, logs |-> <<>>,
     allowance |-> allowance]

\* A transaction from an externally-owned account to the executor, mined:
\* the chain state it leaves and its record.
MinedAt(op, caller, to, value, calldata) ==
    LET r == CallAccount(Chain, caller, to, calldata, value) IN
    [balance |-> r.st.balance,
     storedData |-> r.st.storedData,
     allowance |-> r.st.allowance,
     tx |-> [op |-> op, caller |-> caller, value |-> value,
             calldata |-> calldata,
             pre |-> [balance |-> balance, storedData |-> storedData,
                      allowance |-> allowance],
             ok |-> r.ok, output |-> r.data, logs |-> r.st.logs,
             locals |-> r.locals]]

Mined(op, caller, value, calldata) ==
    MinedAt(op, caller, Exec, value, calldata)

ExecuteBatch(caller, value, req) ==
    /\ tx = NoTx
    /\ value <= balance[caller]
    /\ LET m == Mined("executeBatch", caller, value,
                      BatchCall(req.targets, req.data, req.amount))
       IN  /\ balance' = m.balance
           /\ storedData' = m.storedData
           /\ tx' = m.tx
           /\ allowance' = m.allowance
    /\ UNCHANGED client

Withdraw(caller, value) ==
    /\ tx = NoTx
    /\ value <= balance[caller]
    /\ LET m == Mined("withdraw", caller, value, WithdrawCall)
       IN  /\ balance' = m.balance
           /\ storedData' = m.storedData
           /\ tx' = m.tx
           /\ allowance' = m.allowance
    /\ UNCHANGED client

DirectPayment(caller, value, calldata) ==
    /\ tx = NoTx
    /\ value <= balance[caller]
    /\ LET m == Mined("payment", caller, value, calldata)
       IN  /\ balance' = m.balance
           /\ storedData' = m.storedData
           /\ tx' = m.tx
           /\ allowance' = m.allowance
    /\ UNCHANGED client

\* The next block: the transaction is no longer the head of the chain, and
\* the next one may be sent.  The chain state stays.
Seal ==
    /\ tx # NoTx
    /\ tx' = NoTx
    /\ UNCHANGED <<balance, storedData, allowance>>
    /\ UNCHANGED client

Init ==
    /\ \E held \in 0..MaxHeld :
         balance = [a \in Accounts |->
                      IF a = Alice THEN InitialFunds
                      ELSE IF a = Exec THEN held ELSE 0]
    /\ storedData = 0
    /\ tx = NoTx
    /\ NoTokens
    /\ Constructed

SendBatch ==
    \E caller \in Callers : \E req \in Requests :
        \E value \in AttachedValues(req) : ExecuteBatch(caller, value, req)

SendWithdraw ==
    \E caller \in Callers : \E value \in 0..1 : Withdraw(caller, value)

SendPayment ==
    \E caller \in Callers : \E value \in 0..1 :
        \E calldata \in {NoCalldata, UnknownCalldata} :
            DirectPayment(caller, value, calldata)

Next == SendBatch \/ SendWithdraw \/ SendPayment \/ Seal

Spec == Init /\ [][Next]_vars

(***************************************************************************)
(* The transfer test: batches of plain transfers of 0.01 ether to          *)
(* recipients without code.                                                *)
(***************************************************************************)
TransferCalls ==
    {SubCall(to, NoCalldata, TransferAmount) : to \in {Bob, Carol}}

TransferRequests ==
    {Request(Targets(b), Payloads(b), Amounts(b)) :
        b \in SeqsUpTo(TransferCalls, MaxBatch)}

TransfersInit ==
    /\ \E held \in 0..MaxHeld :
         balance = [a \in Accounts |->
                      IF a = Alice THEN InitialFunds * TransferAmount
                      ELSE IF a = Exec THEN held ELSE 0]
    /\ storedData = 0
    /\ tx = NoTx
    /\ NoTokens
    /\ Constructed

SendTransfers ==
    \E caller \in Callers : \E req \in TransferRequests :
        \E value \in AttachedValues(req) : ExecuteBatch(caller, value, req)

TransfersNext == SendTransfers \/ Seal

TransfersSpec == TransfersInit /\ [][TransfersNext]_vars

(***************************************************************************)
(* BatchTransactionSDK.  The values JavaScript passes around: a number, a  *)
(* decimal string, or an ethers BigNumber object (ref tells two objects    *)
(* holding the same number apart).                                         *)
(***************************************************************************)
Number(n)             == [kind |-> "number", n |-> n, ref |-> 0]
String(n)             == [kind |-> "string", n |-> n, ref |-> 0]
BigNumberObject(n, r) == [kind |-> "BigNumber", n |-> n, ref |-> r]

\* JSON.stringify(value): the text tells the kinds apart, not the objects
JSONstringifyValue(v) == [kind |-> v.kind, n |-> v.n]
\* a === b: objects are equal when they are the same object
StrictEquals(a, b) == a.kind = b.kind /\ a.n = b.n /\ a.ref = b.ref
\* value.toString() read as a number
ToNumber(v) == v.n

Transaction(target, value, data) ==
    [target |-> target, value |-> value, data |-> data]

JSONstringify(t) ==
    [target |-> t.target, value |-> JSONstringifyValue(t.value),
     data |-> t.data]

\* this.transactionList.some((tx) => JSON.stringify(tx) ===
\* JSON.stringify(transaction))
Some(list, t) ==
    \E i \in 1..Len(list) : JSONstringify(list[i]) = JSONstringify(t)

\* transactionList after addTransactionToList(target, value, data).
\* PushedAlways: the push without the duplicate test.
PushedAlways(list, t) == Append(list, t)
Pushed(list, t) == IF Some(list, t) THEN list ELSE Append(list, t)

\* how addTransactionToList ends: with the transaction pushed, or the list
\* kept
Added(list, t) == Ended(IF Some(list, t) THEN "kept" ELSE "pushed")

\* transactionList after removeTransactionFromList(target, value, data)
Kept(target, value, data, e) ==
    ~(e.target = target /\ StrictEquals(e.value, value) /\ e.data = data)
\* FilteredByText: entries compared by their JSON text, as the push does.
FilteredByText(list, target, value, data) ==
    SelectSeq(list, LAMBDA e :
        JSONstringify(e) # JSONstringify(Transaction(target, value, data)))
Filtered(list, target, value, data) ==
    SelectSeq(list, LAMBDA e : Kept(target, value, data, e))

\* approvalTransactionsList after tokenAddress's entry, made if missing,
\* grew by value
Plus(object, tokenAddress, value) ==
    [t \in DOMAIN object \cup {tokenAddress} |->
        IF t = tokenAddress
        THEN (IF t \in DOMAIN object THEN object[t] ELSE 0) + ToNumber(value)
        ELSE object[t]]

(***************************************************************************)
(* The calls of the SDK.  The synchronous ones are one step each; so are   *)
(* addERC20Transfer and addERC20Approve, which await nothing from the      *)
(* network.  executeBatchTransaction() is one step per stretch between     *)
(* two awaited network calls.                                              *)
(***************************************************************************)
addTransactionToList(target, value, data) ==
    /\ transactionList' =
          Pushed(transactionList, Transaction(target, value, data))
    /\ execution' =
          Added(transactionList, Transaction(target, value, data))
    /\ UNCHANGED <<mempool, approvalTransactionsList, approvals>>
    /\ UNCHANGED chain

addERC20Transfer(tokenAddress, target, value) ==
    /\ approvalTransactionsList' =
          Plus(approvalTransactionsList, tokenAddress, value)
    /\ transactionList' =
          Pushed(transactionList,
                 Transaction(tokenAddress, Number(0),
                             TransferFromCall(Signer, target, ToNumber(value))))
    /\ execution' =
          Added(transactionList,
                Transaction(tokenAddress, Number(0),
                            TransferFromCall(Signer, target, ToNumber(value))))
    /\ UNCHANGED <<mempool, approvals>>
    /\ UNCHANGED chain

addERC20Approve(tokenAddress, target, value) ==
    /\ approvalTransactionsList' =
          Plus(approvalTransactionsList, tokenAddress, value)
    /\ transactionList' =
          Pushed(transactionList,
                 Transaction(tokenAddress, Number(0),
                             ApproveCall(target, ToNumber(value))))
    /\ execution' =
          Added(transactionList,
                Transaction(tokenAddress, Number(0),
                            ApproveCall(target, ToNumber(value))))
    /\ UNCHANGED <<mempool, approvals>>
    /\ UNCHANGED chain

removeTransactionFromList(target, value, data) ==
    /\ transactionList' = Filtered(transactionList, target, value, data)
    /\ execution' = Idle
    /\ UNCHANGED <<mempool, approvalTransactionsList, approvals>>
    /\ UNCHANGED chain

clearTransactionList ==
    /\ transactionList' = <<>>
    /\ execution' = Idle
    /\ UNCHANGED <<mempool, approvalTransactionsList, approvals>>
    /\ UNCHANGED chain

\* Callbacks nothing waits for any more are forgotten once they finish.
Running(callbacks) ==
    [t \in {u \in DOMAIN callbacks :
               callbacks[u].pc \notin {"resolved", "rejected"}} |->
        callbacks[t]]
Awaited(callbacks) ==
    IF execution.pc \in {"approving", "estimating"}
    THEN callbacks ELSE Running(callbacks)

\* executeBatchTransaction() up to Promise.all: the empty-list test, and
\* one approval callback started per entry of approvalTransactionsList.
executeBatchTransaction ==
    /\ execution.pc = "idle"
    /\ IF Len(transactionList) = 0
       THEN /\ execution' = Ended("threw")
            /\ approvals' = EmptyObject
       ELSE /\ execution' = [pc |-> "approving", outcome |-> "none"]
            /\ approvals' =
                  [t \in DOMAIN approvalTransactionsList |->
                      [pc |-> "allowance",
                       requiredApproval |-> approvalTransactionsList[t]]]
    /\ UNCHANGED <<mempool, transactionList, approvalTransactionsList>>
    /\ UNCHANGED <<chain, script>>

\* if (new BigNumber(allowance.toString()).lt(requiredApproval))
\* ApprovalNeededAlways: an approval sent whatever the allowance.
ApprovalNeededAlways(allowed, requiredApproval) == TRUE
ApprovalNeeded(allowed, requiredApproval) == allowed < requiredApproval

\* The approval callback of token after tokenContract.allowance() came
\* back: with an answer, or with an error.
AllowanceQueried(token) ==
    /\ token \in DOMAIN approvals
    /\ approvals[token].pc = "allowance"
    /\ \E answered \in BOOLEAN :
         approvals' = Awaited(
            [approvals EXCEPT ![token] =
                IF ~answered
                THEN [pc |-> "rejected",
                      requiredApproval |-> @.requiredApproval]
                ELSE [pc |-> IF ApprovalNeeded(allowance[token],
                                               @.requiredApproval)
                             THEN "approve" ELSE "resolved",
                      requiredApproval |-> @.requiredApproval,
                      allowance |-> allowance[token],
                      approved |-> FALSE]])
    /\ UNCHANGED <<mempool, transactionList, approvalTransactionsList,
                   execution>>
    /\ UNCHANGED <<chain, script>>

ApproveTransaction(token, requiredApproval) ==
    [op |-> "approve", to |-> token,
     calldata |-> ApproveCall(Exec, requiredApproval), value |-> 0]

\* tokenContract.approve(batchContract.address, requiredApproval) came
\* back: the node took the transaction, which is now waiting to be mined,
\* or refused it.  The callback's promise settles with it.
ApproveSubmitted(token) ==
    /\ token \in DOMAIN approvals
    /\ approvals[token].pc = "approve"
    /\ \E accepted \in BOOLEAN :
         IF accepted
         THEN /\ mempool' =
                   Append(mempool,
                          ApproveTransaction(token,
                              approvals[token].requiredApproval))
              /\ approvals' =
                    Awaited([approvals EXCEPT ![token].pc = "resolved",
                                              ![token].approved = TRUE])
         ELSE /\ mempool' = mempool
              /\ approvals' =
                    Awaited([approvals EXCEPT ![token].pc = "rejected"])
    /\ UNCHANGED <<transactionList, approvalTransactionsList, execution>>
    /\ UNCHANGED <<chain, script>>

\* await Promise.all(approvePromises) throws once a callback has thrown;
\* the other callbacks go on.
ApprovalFailed ==
    /\ execution.pc = "approving"
    /\ \E t \in DOMAIN approvals : approvals[t].pc = "rejected"
    /\ execution' = Ended("threw")
    /\ approvals' = Running(approvals)
    /\ UNCHANGED <<mempool, transactionList, approvalTransactionsList>>
    /\ UNCHANGED <<chain, script>>

\* the arrays executeBatch is called with.  TargetsLastFirst: the list
\* read from its end.
TargetsLastFirst(list) ==
    [i \in 1..Len(list) |-> list[Len(list) + 1 - i].target]
TargetsOf(list) == [i \in 1..Len(list) |-> list[i].target]
ValuesOf(list) == [i \in 1..Len(list) |-> list[i].value]
DataOf(list) == [i \in 1..Len(list) |-> list[i].data]
NumbersOf(values) == [i \in 1..Len(values) |-> ToNumber(values[i])]

\* values.reduce((acc, value) => acc.plus(value.toString()), 0).
\* TotalValueOfFirst: the first value alone.
TotalValueOfFirst(values) ==
    IF values = <<>> THEN 0 ELSE ToNumber(values[1])
TotalValue(values) == Sum(NumbersOf(values))

\* await Promise.all(approvePromises) returned: targets, values, data and
\* totalValue are read off transactionList and executeBatch is called.
BatchAssembled ==
    /\ execution.pc = "approving"
    /\ \A t \in DOMAIN approvals : approvals[t].pc = "resolved"
    /\ execution' =
          [pc |-> "sending", outcome |-> "none",
           targets |-> TargetsOf(transactionList),
           values |-> ValuesOf(transactionList),
           data |-> DataOf(transactionList),
           totalValue |-> TotalValue(ValuesOf(transactionList))]
    /\ UNCHANGED <<mempool, transactionList, approvalTransactionsList,
                   approvals>>
    /\ UNCHANGED <<chain, script>>

BatchTransaction(e) ==
    [op |-> "executeBatch", to |-> Exec,
     calldata |-> BatchCall(e.targets, e.data, NumbersOf(e.values)),
     value |-> e.totalValue]

\* What the node answers to the gas estimate the call starts with: the
\* call run on the mined state.
Estimated(t) == CallAccount(Chain, Signer, t.to, t.calldata, t.value).ok

\* this.batchContract.executeBatch(...) came back: the transaction was
\* taken by the node, or the call threw (the node could not be reached,
\* the signer cannot pay the value, or the estimate failed).
BatchSubmitted ==
    /\ execution.pc = "sending"
    /\ \E accepted \in BOOLEAN :
         IF /\ accepted
            /\ execution.totalValue <= balance[Signer]
            /\ Estimated(BatchTransaction(execution))
         THEN /\ mempool' = Append(mempool, BatchTransaction(execution))
              /\ execution' = [execution EXCEPT !.pc = "confirming"]
         ELSE /\ mempool' = mempool
              /\ execution' = Ended("threw")
    /\ approvals' = EmptyObject
    /\ UNCHANGED <<transactionList, approvalTransactionsList>>
    /\ UNCHANGED <<chain, script>>

\* The chain mines the signer's oldest waiting transaction.
MineNext ==
    /\ mempool # <<>>
    /\ LET t == Head(mempool)
           m == MinedAt(t.op, Signer, t.to, t.value, t.calldata)
       IN  /\ balance' = m.balance
           /\ storedData' = m.storedData
           /\ tx' = IF t.op = "executeBatch" THEN m.tx ELSE tx
           /\ allowance' = m.allowance
           /\ execution' =
                 IF t.op = "executeBatch"
                 THEN [pc |-> "mined", outcome |-> "none", status |-> m.tx.ok]
                 ELSE execution
    /\ mempool' = Tail(mempool)
    /\ UNCHANGED <<transactionList, approvalTransactionsList, approvals,
                   script>>

\* transactionList after await tx.wait(); this.clearTransactionList():
\* wait() throws on a receipt of failure.  ClearedWhatever: the list
\* cleared on either receipt.
ClearedWhatever(list, status) == <<>>
ClearedOnSuccess(list, status) == IF status THEN <<>> ELSE list

\* await tx.wait() returned or threw
BatchConfirmed ==
    /\ execution.pc = "mined"
    /\ transactionList' = ClearedOnSuccess(transactionList, execution.status)
    /\ execution' = Ended(IF execution.status THEN "returned" ELSE "threw")
    /\ tx' = NoTx
    /\ UNCHANGED <<mempool, approvalTransactionsList, approvals>>
    /\ UNCHANGED <<balance, storedData, allowance, script>>

(***************************************************************************)
(* The SDK driven by a caller that awaits each call before making the     *)
(* next, against the chain.                                                *)
(***************************************************************************)
\* what the caller passes addTransactionToList: a transfer of one unit to
\* bob, the amount a BigNumber object, and a call of the relay that
\* withdraws from the executor
DirectTransactions ==
    { Transaction(Bob, BigNumberObject(1, 1), NoCalldata),
      Transaction(Relay, Number(0), RelayCall(WithdrawCall, 0)) }

\* what addERC20Transfer and addERC20Approve leave in the list
EncodedTransactions ==
    { Transaction(TokenA, Number(0), TransferFromCall(Signer, Bob, 1)),
      Transaction(TokenB, Number(0), ApproveCall(Bob, 1)) }

\* what the caller passes removeTransactionFromList: any of these, or the
\* transfer with the amount in a BigNumber object of its own
RemovedTransactions ==
    DirectTransactions \cup EncodedTransactions
    \cup {Transaction(Bob, BigNumberObject(1, 2), NoCalldata)}

Required(tokenAddress) ==
    IF tokenAddress \in DOMAIN approvalTransactionsList
    THEN approvalTransactionsList[tokenAddress] ELSE 0

\* the caller makes a call when none is in progress
Awaiting == execution.pc = "idle"

CallAddTransaction ==
    \E t \in DirectTransactions :
        /\ Awaiting
        /\ Len(transactionList) < MaxPending
        /\ addTransactionToList(t.target, t.value, t.data)
        /\ UNCHANGED script

CallAddERC20Transfer ==
    \E tokenAddress \in {TokenA} :
        /\ Awaiting
        /\ Len(transactionList) < MaxPending
        /\ Required(tokenAddress) < MaxRequired
        /\ addERC20Transfer(tokenAddress, Bob, String(1))
        /\ UNCHANGED script

\* one approve of the second token is asked for
CallAddERC20Approve ==
    \E tokenAddress \in {TokenB} :
        /\ Awaiting
        /\ Len(transactionList) < MaxPending
        /\ Required(tokenAddress) = 0
        /\ addERC20Approve(tokenAddress, Bob, String(1))
        /\ UNCHANGED script

CallRemoveTransaction ==
    \E t \in RemovedTransactions :
        /\ Awaiting
        /\ removeTransactionFromList(t.target, t.value, t.data)
        /\ UNCHANGED script

ClientInit ==
    /\ \E held \in {0, MaxHeld} :
         balance = [a \in Accounts |->
                      IF a = Signer THEN InitialFunds
                      ELSE IF a = Exec THEN held ELSE 0]
    /\ storedData = 0
    /\ tx = NoTx
    /\ NoTokens
    /\ Constructed

CallClear ==
    /\ Awaiting
    /\ clearTransactionList
    /\ UNCHANGED script

\* Another account has the executor spend what the signer allowed it: its
\* batch is mined ahead of the signer's transactions.
OtherAccountBatch ==
    \E token \in {TokenA} :
        LET m == MinedAt("executeBatch", Bob, Exec, 0,
                         BatchCall(<<token>>,
                                   <<TransferFromCall(Signer, Bob, 1)>>,
                                   <<0>>))
        IN  /\ m.tx.ok
            /\ allowance' = m.allowance
            /\ balance' = m.balance
            /\ storedData' = m.storedData
            /\ UNCHANGED <<tx, sdk, script>>

\* the caller starts executeBatchTransaction() once the earlier call, its
\* approval callbacks and the transactions they sent are through
CallExecute ==
    /\ approvals = EmptyObject
    /\ mempool = <<>>
    /\ executeBatchTransaction

ClientNext ==
    \/ CallAddTransaction
    \/ CallAddERC20Transfer
    \/ CallAddERC20Approve
    \/ CallRemoveTransaction
    \/ CallClear
    \/ CallExecute
    \/ \E token \in Tokens : AllowanceQueried(token)
    \/ \E token \in Tokens : ApproveSubmitted(token)
    \/ ApprovalFailed
    \/ BatchAssembled
    \/ BatchSubmitted
    \/ MineNext
    \/ BatchConfirmed
    \/ OtherAccountBatch

ClientSpec == ClientInit /\ [][ClientNext]_vars

(***************************************************************************)
(* A caller that adds a transaction twice and removes it, starting from    *)
(* any list the SDK may hold.                                              *)
(***************************************************************************)
PendingLists ==
    {list \in SeqsUpTo(RemovedTransactions, MaxPending) :
        \A i, j \in 1..Len(list) :
            JSONstringify(list[i]) = JSONstringify(list[j]) => i = j}

ScriptAdd ==
    /\ script.at \in {0, 1}
    /\ addTransactionToList(script.triple.target, script.triple.value,
                            script.triple.data)
    /\ script' = [script EXCEPT !.at = @ + 1]

ScriptRemove ==
    /\ script.at = 2
    /\ removeTransactionFromList(script.triple.target, script.triple.value,
                                 script.triple.data)
    /\ script' = [script EXCEPT !.at = 3]

ListInit ==
    /\ balance = [a \in Accounts |-> IF a = Signer THEN InitialFunds ELSE 0]
    /\ storedData = 0
    /\ tx = NoTx
    /\ NoTokens
    /\ approvalTransactionsList = EmptyObject
    /\ mempool = <<>>
    /\ execution = Idle
    /\ approvals = EmptyObject
    /\ transactionList \in PendingLists
    /\ \E t \in RemovedTransactions :
         script = [at |-> 0, triple |-> t, before |-> transactionList]

ListNext == ScriptAdd \/ ScriptRemove

ListSpec == ListInit /\ [][ListNext]_vars

(***************************************************************************)
(* Properties of the latest transaction                                    *)
(***************************************************************************)
Highest(S) == CHOOSE i \in S : \A j \in S : j <= i

IsBatch == tx.op = "executeBatch"

EqualLengths ==
    /\ Len(tx.calldata.targets) = Len(tx.calldata.data)
    /\ Len(tx.calldata.targets) = Len(tx.calldata.amount)

ChainAsBefore ==
    /\ balance = tx.pre.balance
    /\ storedData = tx.pre.storedData
    /\ allowance = tx.pre.allowance
    /\ tx.logs = <<>>

\* C1: when a sub-call of executeBatch fails, the call fails and every
\* balance, SimpleStorage's stored value and the log are what they were
\* before the call, the effects of the earlier sub-calls included.
FailedSubcallRollsBack ==
    (IsBatch /\ tx.locals.failedAt # 0) => (~tx.ok /\ ChainAsBefore)

\* a second sub-call failed after a first one had paid for and written a
\* new stored value
FailedAfterWrite ==
    /\ IsBatch
    /\ tx.locals.failedAt = 2
    /\ tx.calldata.targets[1] = Store
    /\ tx.calldata.data[1].fn = "set"
    /\ tx.calldata.data[1].x # tx.pre.storedData
    /\ tx.pre.storedData # 0
    /\ tx.calldata.amount[1] = Fee

\* C2: a committed batch whose attached value exceeds the sum of its
\* amounts refunds exactly the surplus to the caller.
SurplusRefunded ==
    (IsBatch /\ tx.ok /\ tx.value > Sum(tx.calldata.amount)) =>
        tx.locals.refund = tx.value - Sum(tx.calldata.amount)

\* C3: after a committed batch the executor holds at least what it held
\* before the call.
CommittedBatchKeepsHeldFunds ==
    (IsBatch /\ tx.ok) => balance[Exec] >= tx.pre.balance[Exec]

\* a batch with value attached and a target that re-entered the executor
\* committed while the executor held funds
CommittedWithHeldFunds ==
    /\ IsBatch
    /\ tx.ok
    /\ tx.pre.balance[Exec] > 0
    /\ tx.value > 0
    /\ \E i \in 1..Len(tx.calldata.targets) : tx.calldata.targets[i] = Relay

\* C4: a committed batch one of whose targets called back into the
\* executor still refunds the caller's whole unspent value and leaves the
\* executor with its reference balance.
ReentrantBatchKeepsAccounting ==
    (/\ IsBatch
     /\ tx.ok
     /\ \E i \in 1..Len(tx.calldata.targets) : tx.calldata.targets[i] = Relay)
    => /\ tx.locals.refund = tx.value - Sum(tx.calldata.amount)
       /\ balance[Exec] = tx.pre.balance[Exec]

\* C5: after a committed batch the stored value is the one written by the
\* last set sub-call in input order (the previous value when there is
\* none): 42, 84, 126 leaves 126.
LastWriteWins ==
    (IsBatch /\ tx.ok) =>
        LET writes == {i \in 1..Len(tx.calldata.targets) :
                          /\ tx.calldata.targets[i] = Store
                          /\ tx.calldata.data[i].fn = "set"}
        IN  storedData = IF writes = {} THEN tx.pre.storedData
                         ELSE tx.calldata.data[Highest(writes)].x

ThreeWritesCommitted ==
    /\ IsBatch
    /\ tx.ok
    /\ tx.calldata.targets = <<Store, Store, Store>>
    /\ tx.calldata.data = <<SetCall(42), SetCall(84), SetCall(126)>>
    /\ tx.calldata.amount = <<Fee, Fee, Fee>>
    /\ storedData = 126

\* C6: executeBatch with arrays of unequal length fails with "Mismatched
\* inputs" before any sub-call is invoked and changes nothing.
MismatchedLengthsRejected ==
    (IsBatch /\ ~EqualLengths) =>
        /\ ~tx.ok
        /\ tx.output = MalformedRequest
        /\ tx.locals.invoked = 0
        /\ ChainAsBefore

ShortAmountsSubmitted ==
    /\ IsBatch
    /\ Len(tx.calldata.targets) = Len(tx.calldata.data)
    /\ Len(tx.calldata.amount) < Len(tx.calldata.targets)
    /\ tx.value > 0
    /\ ~tx.ok

\* C7: a batch whose sub-calls all succeeded but left the executor below
\* its reference balance fails with "ETH exceeded" and changes nothing; a
\* batch whose amounts sum to more than the attached value never commits.
OverspendingBatchReverts ==
    IsBatch =>
        /\ (tx.locals.completed
              /\ tx.locals.finalBalance < tx.locals.initialBalance)
           => (~tx.ok /\ tx.output = InsufficientFunds /\ ChainAsBefore)
        /\ (EqualLengths /\ Sum(tx.calldata.amount) > tx.value) => ~tx.ok

\* the executor held enough for every sub-call, all of them succeeded, and
\* the batch was refused for spending more than was attached
OverspentFromHeldFunds ==
    /\ IsBatch
    /\ tx.locals.completed
    /\ Len(tx.calldata.targets) > 0
    /\ Sum(tx.calldata.amount) > tx.value
    /\ \A i \in 1..Len(tx.calldata.amount) :
          tx.calldata.amount[i] <= tx.pre.balance[Exec]
    /\ tx.output = InsufficientFunds

DirectPaymentsRejected ==
    /\ [](tx.op = "payment" =>
            (~tx.ok /\ tx.output = DirectPaymentRejected /\ ChainAsBefore))
    /\ [][balance'[Exec] # balance[Exec] =>
            tx'.op \in {"executeBatch", "withdraw"}]_vars

PaymentRefused ==
    /\ tx.op = "payment"
    /\ tx.value > 0
    /\ tx.calldata = UnknownCalldata
    /\ ~tx.ok

ReturnDataOf(calldata) ==
    IF calldata.fn = "relay" /\ calldata.inner.fn = "executeBatch"
    THEN BatchReturn([j \in 1..Len(calldata.inner.targets) |-> TRUE],
                     [j \in 1..Len(calldata.inner.targets) |-> NoData])
    ELSE IF calldata.fn \in {"approve", "transferFrom"} THEN True
    ELSE NoData

OneOutcomePerCall ==
    [sig |-> "return",
     success |-> [i \in 1..Len(tx.calldata.targets) |-> TRUE],
     results |-> [i \in 1..Len(tx.calldata.targets) |->
                     ReturnDataOf(tx.calldata.data[i])]]

\* C11 as stated: a well-formed batch whose sub-calls all succeed returns
\* one outcome (success flag, return data) per input triple, in input
\* order, every flag true.
SucceededCallsReturnOutcomes ==
    (IsBatch /\ EqualLengths /\ tx.locals.completed) =>
        (tx.ok /\ tx.output = OneOutcomePerCall)

\* C11: a well-formed batch whose sub-calls all succeed returns one outcome
\* per input triple, in input order, every flag true, unless the sub-calls
\* left the executor below its reference balance: then it returns nothing
\* and fails with "ETH exceeded".
CommittedBatchReturnsOutcomes ==
    (IsBatch /\ EqualLengths /\ tx.locals.completed) =>
        IF tx.locals.finalBalance < tx.locals.initialBalance
        THEN ~tx.ok /\ tx.output = InsufficientFunds
        ELSE tx.ok /\ tx.output = OneOutcomePerCall

\* a committed batch of two sub-calls with different return data
TwoOutcomesReturned ==
    /\ IsBatch
    /\ tx.ok
    /\ Len(tx.calldata.targets) = 2
    /\ tx.output.results[1] # NoData
    /\ tx.output.results[2] = NoData

\* The OperationExecuted events a successful sub-call leaves: those of the
\* inner batch when it relays one, then its own.
EventsOfCall(target, calldata) ==
    (IF calldata.fn = "relay" /\ calldata.inner.fn = "executeBatch"
     THEN [j \in 1..Len(calldata.inner.targets) |->
              OperationExecuted(calldata.inner.targets[j], TRUE, NoData)]
     ELSE <<>>)
    \o <<OperationExecuted(target, TRUE, ReturnDataOf(calldata))>>

RECURSIVE EventsOfCalls(_, _)
EventsOfCalls(targets, data) ==
    IF targets = <<>> THEN <<>>
    ELSE EventsOfCall(Head(targets), Head(data))
         \o EventsOfCalls(Tail(targets), Tail(data))

IsOperationExecuted(e) == e.event = "OperationExecuted"

\* C12: the log of a committed batch holds one OperationExecuted event per
\* sub-call (those of a relayed inner batch included), in execution order;
\* a batch that reverts leaves no event.
OneEventPerCallWhenCommitted ==
    IsBatch =>
        IF tx.ok
        THEN SelectSeq(tx.logs, IsOperationExecuted) =
                EventsOfCalls(tx.calldata.targets, tx.calldata.data)
        ELSE tx.logs = <<>>

\* a committed batch of two sub-calls to different targets, the first of
\* them relaying an inner batch
EventsOfTwoCallsLogged ==
    /\ IsBatch
    /\ tx.ok
    /\ Len(tx.calldata.targets) = 2
    /\ tx.calldata.targets[1] = Relay
    /\ tx.calldata.targets[2] = Bob
    /\ Len(SelectSeq(tx.logs, IsOperationExecuted)) = 3

\* C13: a batch of plain transfers to distinct recipients other than the
\* caller, with the sum of the amounts attached, commits; each recipient's
\* balance grows by exactly its amount and the executor's balance is what
\* it was before the batch (two transfers of 0.01 ether with 0.02 attached).
TransfersReachRecipients ==
    (/\ IsBatch
     /\ EqualLengths
     /\ \A i \in 1..Len(tx.calldata.targets) :
           /\ tx.calldata.targets[i] \in EOA \ {tx.caller}
           /\ tx.calldata.data[i] = NoCalldata
           /\ \A j \in 1..Len(tx.calldata.targets) :
                 tx.calldata.targets[i] = tx.calldata.targets[j] => i = j
     /\ tx.value = Sum(tx.calldata.amount))
    => /\ tx.ok
       /\ \A i \in 1..Len(tx.calldata.targets) :
             balance[tx.calldata.targets[i]] =
                tx.pre.balance[tx.calldata.targets[i]] + tx.calldata.amount[i]
       /\ balance[Exec] = tx.pre.balance[Exec]
       /\ balance[tx.caller] = tx.pre.balance[tx.caller] - tx.value

\* two fresh recipients were sent 0.01 ether each with 0.02 ether attached
TwoFreshRecipientsPaid ==
    /\ IsBatch
    /\ tx.ok
    /\ tx.calldata.targets = <<Bob, Carol>>
    /\ tx.calldata.amount = <<TransferAmount, TransferAmount>>
    /\ tx.value = 2 * TransferAmount
    /\ tx.pre.balance[Bob] = 0
    /\ tx.pre.balance[Carol] = 0
    /\ balance[Bob] = TransferAmount
    /\ balance[Carol] = TransferAmount

(***************************************************************************)
(* Properties of the SDK                                                   *)
(***************************************************************************)
\* C14: transactionList never holds two entries with the same target, the
\* same value and the same data, and addTransactionToList called with a
\* transaction the list already holds leaves the list as it is: the
\* transaction added twice is in the list once.
PendingListHasNoDuplicates ==
    /\ [](\A i, j \in 1..Len(transactionList) :
             JSONstringify(transactionList[i]) =
                JSONstringify(transactionList[j]) => i = j)
    /\ [][(execution'.pc = "idle" /\ execution'.outcome = "kept")
            => transactionList' = transactionList]_vars

\* the only entry of the list has just been added a second time
AddedTwiceListedOnce ==
    /\ execution.pc = "idle"
    /\ execution.outcome = "kept"
    /\ Len(transactionList) = 1

StrictlyIn(list, t) ==
    \E i \in 1..Len(list) :
        /\ list[i].target = t.target
        /\ StrictEquals(list[i].value, t.value)
        /\ list[i].data = t.data

\* C15 as stated: whatever the list and the transaction, the list after
\* the transaction was added twice and removed once is the list before the
\* two adds.
AddAddRemoveRestoresList ==
    script.at = 3 => transactionList = script.before

\* C15: the list after a transaction was added twice and removed once
\* holds no entry strictly equal to it; it is the list before the two
\* adds, same entries in the same order, when that list held no such
\* entry, and that list without the entry when it held one.
AddAddRemoveRestoresListWithoutIt ==
    script.at = 3 =>
        /\ ~StrictlyIn(transactionList, script.triple)
        /\ ~StrictlyIn(script.before, script.triple)
              => transactionList = script.before
        /\ StrictlyIn(script.before, script.triple)
              => /\ Len(transactionList) = Len(script.before) - 1
                 /\ \A i \in 1..Len(transactionList) :
                       \E j \in 1..Len(script.before) :
                           transactionList[i] = script.before[j]

\* a transaction was added twice to, and removed from, a list of two other
\* transactions, one of them with the same amount in another object
AddedTwiceAndRemoved ==
    /\ script.at = 3
    /\ Len(script.before) = 2
    /\ Some(script.before, script.triple)
    /\ ~StrictlyIn(script.before, script.triple)
    /\ transactionList = script.before

\* the executeBatch transactions among the waiting ones
IsBatchTransaction(t) == t.op = "executeBatch"
WaitingBatches == SelectSeq(mempool, IsBatchTransaction)

\* a step in which executeBatchTransaction() hands a batch to the node
BatchSent == Len(WaitingBatches') > Len(WaitingBatches)

\* new keeps the entries of old in the order they had in old, and has the
\* entries it adds after them
KeepsOrder(old, new) ==
    \A i, j \in 1..Len(new) :
        i < j =>
            \/ \E k, l \in 1..Len(old) :
                  k < l /\ old[k] = new[i] /\ old[l] = new[j]
            \/ \A l \in 1..Len(old) : old[l] # new[j]

\* C16: the list keeps its entries in the order they were added in; a call
\* of executeBatchTransaction() hands the node one executeBatch
\* transaction, whose targets, data and amounts are those of the whole
\* list, entry by entry; the sub-calls of the mined batch are those of the
\* list, executed in the list's order.
BatchIsTheListInOrder ==
    /\ [][KeepsOrder(transactionList, transactionList')]_vars
    /\ [][BatchSent =>
            /\ execution.pc = "sending"
            /\ execution'.pc = "confirming"
            /\ WaitingBatches = <<>>
            /\ WaitingBatches' =
                 <<[op |-> "executeBatch", to |-> Exec,
                    calldata |->
                       BatchCall(
                          [i \in 1..Len(transactionList) |->
                              transactionList[i].target],
                          [i \in 1..Len(transactionList) |->
                              transactionList[i].data],
                          [i \in 1..Len(transactionList) |->
                              transactionList[i].value.n]),
                    value |-> execution.totalValue]>>]_vars
    /\ [](execution.pc = "mined" =>
            /\ tx.caller = Signer
            /\ Len(tx.calldata.targets) = Len(transactionList)
            /\ \A i \in 1..Len(transactionList) :
                  /\ tx.calldata.targets[i] = transactionList[i].target
                  /\ tx.calldata.data[i] = transactionList[i].data
                  /\ tx.calldata.amount[i] = transactionList[i].value.n
            /\ tx.ok =>
                  SelectSeq(tx.logs, IsOperationExecuted) =
                     EventsOfCalls(tx.calldata.targets, tx.calldata.data))

\* the batch of a list of a transfer of value and a token call after it
\* has been mined and has committed
ListOfTwoExecutedInOrder ==
    /\ execution.pc = "mined"
    /\ tx.ok
    /\ Len(transactionList) = 2
    /\ transactionList[1].target = Bob
    /\ transactionList[2].target \in Tokens
    /\ tx.logs[1].target = Bob

\* C17: the value executeBatchTransaction() attaches is the sum of the
\* values of the list's entries, and the batch it calls executeBatch with
\* neither fails the executor's balance check nor leaves a surplus that is
\* refunded, in the node's run of the call before it is sent and when it
\* is mined.
ClientBatchSpendsWhatItAttaches ==
    /\ execution.pc = "sending" =>
          LET b == BatchTransaction(execution)
              r == CallAccount(Chain, Signer, b.to, b.calldata, b.value)
          IN  /\ b.value = Sum([i \in 1..Len(transactionList) |->
                                   transactionList[i].value.n])
              /\ r.data # InsufficientFunds
              /\ r.locals.refund = 0
    /\ execution.pc = "mined" =>
          /\ tx.value = Sum(tx.calldata.amount)
          /\ tx.output # InsufficientFunds
          /\ tx.locals.refund = 0

\* a step of a call of executeBatchTransaction(), or of the callbacks it
\* left behind; the step await tx.wait() ends with
ExecuteStep ==
    \/ execution.pc # "idle"
    \/ execution'.pc # "idle"
    \/ execution'.outcome = "threw"
Confirms == execution.pc = "mined" /\ execution'.pc = "idle"

\* C18: executeBatchTransaction() changes the list in one step only, the
\* one where the wait for the mined batch returns with a receipt of
\* success: there the list is emptied and the call returns.  In every
\* other step of the call, the failures of the allowance query, of an
\* approval, of the submission and of the confirmation included, the list
\* stays what it was when the call was made, and the call does not return.
ListClearedOnConfirmedSuccessOnly ==
    [][ExecuteStep =>
         /\ transactionList' # transactionList =>
               Confirms /\ execution.status
         /\ Confirms /\ execution.status =>
               transactionList' = <<>> /\ execution' = Ended("returned")
         /\ Confirms /\ ~execution.status =>
               execution' = Ended("threw")
         /\ execution'.outcome = "returned" =>
               Confirms /\ execution.status]_vars

\* the call has thrown on a list of two after an approval of its was sent
ThrewWithListOfTwoKept ==
    /\ execution = Ended("threw")
    /\ Len(transactionList) = 2
    /\ \E i \in 1..Len(mempool) : mempool[i].op = "approve"

\* the approval transactions the signer has sent that are not mined yet
WaitingApprovals(token) ==
    SelectSeq(mempool, LAMBDA t : t.op = "approve" /\ t.to = token)

\* C19: when executeBatchTransaction() comes to call executeBatch, every
\* approval transaction its callbacks sent has been mined, none is still
\* waiting.
ApprovalsMinedBeforeBatchCalled ==
    execution.pc = "sending" =>
        \A token \in DOMAIN approvals :
            approvals[token].approved => WaitingApprovals(token) = <<>>

\* a step in which an approval transaction for token is handed to the node
ApprovalSent(token) ==
    Len(WaitingApprovals(token)') > Len(WaitingApprovals(token))

\* a step in which the approval callback of token gets the allowance
AllowanceRead(token) ==
    /\ token \in DOMAIN approvals
    /\ approvals[token].pc = "allowance"
    /\ token \in DOMAIN approvals'
    /\ approvals'[token].pc \in {"approve", "resolved"}

\* a step in which the oldest waiting transaction, an approval, is mined
ApprovalMined ==
    /\ mempool # <<>>
    /\ Head(mempool).op = "approve"
    /\ mempool' = Tail(mempool)

\* C20: a call of executeBatchTransaction() starts one callback for each
\* token with an accumulated amount, which keeps the amount accumulated
\* at the call; the callback of a token whose amount is above the
\* allowance it read goes on to approve, and the callback of a token
\* whose allowance is the amount or more resolves with nothing sent; an
\* approval transaction is sent only by a callback that goes on to
\* approve, once, and approves the executor for the token's amount; when
\* it is mined the allowance of the executor on that token is that amount
\* or more.
ApprovalsSentWhereAllowanceIsShort ==
    /\ [][execution.pc = "idle" /\ execution'.pc = "approving" =>
            /\ DOMAIN approvals' = DOMAIN approvalTransactionsList
            /\ \A token \in DOMAIN approvals' :
                  approvals'[token].requiredApproval =
                     approvalTransactionsList[token]]_vars
    /\ [][\A token \in Tokens :
            AllowanceRead(token) =>
                /\ approvals'[token].requiredApproval =
                      approvals[token].requiredApproval
                /\ approvals'[token].allowance = allowance[token]
                /\ approvals'[token].pc = "approve" <=>
                      allowance[token] < approvals[token].requiredApproval
                /\ mempool' = mempool]_vars
    /\ [][\A token \in Tokens :
            ApprovalSent(token) =>
                /\ token \in DOMAIN approvals
                /\ approvals[token].pc = "approve"
                /\ ~approvals[token].approved
                /\ approvals[token].allowance <
                      approvals[token].requiredApproval
                /\ WaitingApprovals(token) = <<>>
                /\ mempool' =
                      Append(mempool,
                             [op |-> "approve", to |-> token,
                              calldata |->
                                 [fn |-> "approve", spender |-> Exec,
                                  value |->
                                     approvals[token].requiredApproval],
                              value |-> 0])
                /\ token \in DOMAIN approvals' =>
                      approvals'[token].pc = "resolved"]_vars
    /\ [][ApprovalMined =>
            allowance'[Head(mempool).to] >=
               Head(mempool).calldata.value]_vars

\* in one call the first token's allowance sufficed and nothing was sent
\* for it, and an approval was sent for the second
ApprovalSentForOneTokenOfTwo ==
    /\ execution.pc = "approving"
    /\ DOMAIN approvals = {TokenA, TokenB}
    /\ approvals[TokenA].pc = "resolved"
    /\ ~approvals[TokenA].approved
    /\ WaitingApprovals(TokenA) = <<>>
    /\ approvals[TokenB].pc = "resolved"
    /\ approvals[TokenB].approved
    /\ WaitingApprovals(TokenB) # <<>>

\* the callbacks whose tokenContract.approve() call has not come back: the
\* signer's transactions being submitted
Submitting == {t \in DOMAIN approvals : approvals[t].pc = "approve"}

\* C21: during executeBatchTransaction() at most one transaction of the
\* signer is being submitted at a time: no approve() call is made while
\* another has not come back, and executeBatch is not called while one has
\* not come back.
OneSubmissionAtATime ==
    /\ Cardinality(Submitting) <= 1
    /\ execution.pc = "sending" => Submitting = {}

\* the amounts of the approve and transferFrom entries of list on token
AmountsOn(list, token) ==
    LET IsOn(t) == /\ t.target = token
                   /\ t.data.fn \in {"approve", "transferFrom"}
        on == SelectSeq(list, IsOn)
    IN  [i \in 1..Len(on) |-> on[i].data.value]

\* C22: when executeBatchTransaction() takes the accumulated amounts to
\* decide on the approvals, the amount accumulated for each token is the
\* sum of the amounts of the approve and transferFrom entries on that
\* token in the list it submits.
AccumulatedIsSumOfListedAmounts ==
    execution.pc = "approving" =>
        \A token \in Tokens :
            Required(token) = Sum(AmountsOn(transactionList, token))

(***************************************************************************)
(* The test "Should send ERC20 tokens as a batch transfer": a caller that  *)
(* adds a transfer of the first token to each of two recipients and then   *)
(* calls executeBatchTransaction(), again if it threw.                     *)
(***************************************************************************)
Recipients == <<Bob, Carol>>
TransferAmounts == {1, 2}

TokenTransferInit ==
    /\ \E held \in 0..MaxHeld :
         balance = [a \in Accounts |->
                      IF a = Signer THEN InitialFunds
                      ELSE IF a = Exec THEN held ELSE 0]
    /\ storedData = 0
    /\ tx = NoTx
    /\ \E allowed \in 0..MaxRequired :
         allowance = [t \in Tokens |-> IF t = TokenA THEN allowed ELSE 0]
    /\ mempool = <<>>
    /\ transactionList = <<>>
    /\ approvalTransactionsList = EmptyObject
    /\ execution = Idle
    /\ approvals = EmptyObject
    /\ \E amounts \in [1..Len(Recipients) -> TransferAmounts] :
         script = [at |-> 0, amounts |-> amounts]

ScriptAddERC20Transfer ==
    /\ script.at < Len(Recipients)
    /\ addERC20Transfer(TokenA, Recipients[script.at + 1],
                        String(script.amounts[script.at + 1]))
    /\ script' = [script EXCEPT !.at = @ + 1]

ScriptExecute ==
    /\ script.at = Len(Recipients)
    /\ approvals = EmptyObject
    /\ mempool = <<>>
    /\ executeBatchTransaction

TokenTransferNext ==
    \/ ScriptAddERC20Transfer
    \/ ScriptExecute
    \/ \E token \in Tokens : AllowanceQueried(token)
    \/ \E token \in Tokens : ApproveSubmitted(token)
    \/ ApprovalFailed
    \/ BatchAssembled
    \/ BatchSubmitted
    \/ MineNext
    \/ BatchConfirmed

TokenTransferSpec == TokenTransferInit /\ [][TokenTransferNext]_vars

\* list is the transfers of the first token to the recipients, each of
\* its amount
TransfersToRecipients(list) ==
    /\ Len(list) = Len(Recipients)
    /\ \A i \in 1..Len(list) :
          /\ list[i].target = TokenA
          /\ list[i].data =
                [fn |-> "transferFrom", from |-> Signer,
                 to |-> Recipients[i], value |-> script.amounts[i]]

\* C23: after addERC20Transfer for each recipient, when
\* executeBatchTransaction() comes to call executeBatch the signer's
\* allowance to the executor covers the transfers, so that the batch
\* succeeds on the chain as it is, and the mined batch has committed with
\* one successful transferFrom of its amount to each recipient.
ERC20TransfersCommitWithAllowanceInPlace ==
    /\ execution.pc = "sending" /\ TransfersToRecipients(transactionList) =>
          /\ allowance[TokenA] >= Sum(AmountsOn(transactionList, TokenA))
          /\ Estimated(BatchTransaction(execution))
    /\ execution.pc = "mined" /\ TransfersToRecipients(transactionList) =>
          /\ tx.ok
          /\ tx.calldata.data = DataOf(transactionList)
          /\ tx.output =
                [sig |-> "return",
                 success |-> [i \in 1..Len(Recipients) |-> TRUE],
                 results |-> [i \in 1..Len(Recipients) |-> True]]

(***************************************************************************)
(* estimateGasForBatchTransaction(), called on any state the SDK and the   *)
(* token allowances may be in.  Gas is counted in thousands: what every    *)
(* transaction costs before its code runs, and one more for each sub-call  *)
(* of a batch.                                                             *)
(***************************************************************************)
IntrinsicGas == 21
GasOf(t) ==
    IntrinsicGas +
    (IF t.op = "executeBatch" THEN Len(t.calldata.targets) ELSE 0)

\* estimateGasForBatchTransaction() up to Promise.all
estimateGasForBatchTransaction ==
    /\ execution.pc = "idle"
    /\ approvals = EmptyObject
    /\ IF Len(transactionList) = 0
       THEN /\ execution' = Ended("threw")
            /\ approvals' = EmptyObject
       ELSE /\ execution' = [pc |-> "estimating", outcome |-> "none"]
            /\ approvals' =
                  [t \in DOMAIN approvalTransactionsList |->
                      [pc |-> "allowance",
                       requiredApproval |-> approvalTransactionsList[t]]]
    /\ UNCHANGED <<mempool, transactionList, approvalTransactionsList>>
    /\ UNCHANGED <<chain, script>>

\* tokenContract.estimateGas.approve(...) came back, with the estimate or
\* with an error; the estimate is the callback's result, which nothing
\* reads
ApproveEstimated(token) ==
    /\ token \in DOMAIN approvals
    /\ approvals[token].pc = "approve"
    /\ \E answered \in BOOLEAN :
         approvals' =
            Awaited([approvals EXCEPT
                        ![token].pc =
                            IF answered THEN "resolved" ELSE "rejected"])
    /\ UNCHANGED <<mempool, transactionList, approvalTransactionsList,
                   execution>>
    /\ UNCHANGED <<chain, script>>

\* await Promise.all(approvePromises) throws
EstimateFailed ==
    /\ execution.pc = "estimating"
    /\ \E t \in DOMAIN approvals : approvals[t].pc = "rejected"
    /\ execution' = Ended("threw")
    /\ approvals' = Running(approvals)
    /\ UNCHANGED <<mempool, transactionList, approvalTransactionsList>>
    /\ UNCHANGED <<chain, script>>

\* await Promise.all returned and estimateGas.executeBatch(targets, data,
\* values, {value: totalValue}) came back: with the gas of the batch run
\* on the mined state, or with an error when the node cannot be reached or
\* the run fails
BatchEstimated ==
    /\ execution.pc = "estimating"
    /\ \A t \in DOMAIN approvals : approvals[t].pc = "resolved"
    /\ LET b == BatchTransaction(
                   [targets |-> TargetsOf(transactionList),
                    values |-> ValuesOf(transactionList),
                    data |-> DataOf(transactionList),
                    totalValue |-> TotalValue(ValuesOf(transactionList))])
       IN  \E answered \in BOOLEAN :
             execution' =
                IF answered /\ b.value <= balance[Signer] /\ Estimated(b)
                THEN [pc |-> "idle", outcome |-> "returned",
                      estimatedGas |-> GasOf(b)]
                ELSE Ended("threw")
    /\ approvals' = EmptyObject
    /\ UNCHANGED <<mempool, transactionList, approvalTransactionsList>>
    /\ UNCHANGED <<chain, script>>

\* the lists and the accumulated amounts the SDK may hold: every token
\* with an entry in the list has an amount, and amounts stay after their
\* entries have gone
EstimatedLists ==
    {list \in SeqsUpTo(DirectTransactions \cup EncodedTransactions,
                       MaxPending) :
        \A i, j \in 1..Len(list) :
            JSONstringify(list[i]) = JSONstringify(list[j]) => i = j}
Accumulated(list) ==
    UNION {[held -> 1..MaxRequired] : held \in
              {h \in SUBSET Tokens :
                  \A i \in 1..Len(list) :
                      list[i].target \in Tokens => list[i].target \in h}}

EstimateInit ==
    /\ \E held \in 0..MaxHeld :
         balance = [a \in Accounts |->
                      IF a = Signer THEN InitialFunds
                      ELSE IF a = Exec THEN held ELSE 0]
    /\ storedData = 0
    /\ tx = NoTx
    /\ allowance \in [Tokens -> 0..MaxRequired]
    /\ mempool = <<>>
    /\ transactionList \in EstimatedLists
    /\ approvalTransactionsList \in Accumulated(transactionList)
    /\ execution = Idle
    /\ approvals = EmptyObject
    /\ script = NoScript

EstimateNext ==
    \/ estimateGasForBatchTransaction
    \/ \E token \in Tokens : AllowanceQueried(token)
    \/ \E token \in Tokens : ApproveEstimated(token)
    \/ EstimateFailed
    \/ BatchEstimated

EstimateSpec == EstimateInit /\ [][EstimateNext]_vars

\* the tokens executeBatchTransaction() would send an approval for
ShortOfAllowance ==
    {t \in DOMAIN approvalTransactionsList :
        allowance[t] < approvalTransactionsList[t]}

\* C24: the gas estimateGasForBatchTransaction() returns is the gas of the
\* batch of the current list together with the gas of one approval
\* transaction for each token whose allowance is short of its accumulated
\* amount; and no step of the call sends a transaction or changes the
\* list, the accumulated amounts or the chain.
EstimateCoversBatchAndApprovals ==
    /\ [][execution.pc = "estimating" /\ execution'.outcome = "returned" =>
            execution'.estimatedGas =
               IntrinsicGas + Len(transactionList)
               + Cardinality(ShortOfAllowance) * IntrinsicGas]_vars
    /\ [][/\ mempool' = mempool
          /\ transactionList' = transactionList
          /\ approvalTransactionsList' = approvalTransactionsList
          /\ chain' = chain]_vars

(***************************************************************************)
(* Batches called by an account that cannot take the refund: the executor  *)
(* itself, as the target of a sub-call of a batch, runs a nested batch     *)
(* with more value attached than the nested batch spends.                  *)
(***************************************************************************)
\* nested batches: a transfer, and a paid write of the storage
NestedBatches ==
    { BatchCall(<<Bob>>, <<NoCalldata>>, <<1>>),
      BatchCall(<<Store>>, <<SetCall(TestWrites[1])>>, <<Fee>>) }

\* sub-calls: a plain transfer, a nested batch with the value it spends or
\* with one more, run by the executor or by the relay
NestedCalls ==
    {SubCall(Bob, NoCalldata, 1)}
    \cup {SubCall(Exec, inner, v) :
             inner \in NestedBatches, v \in {1, 2}}
    \cup {SubCall(Relay, RelayCall(inner, v), v) :
             inner \in NestedBatches, v \in {2}}

NestedRequests ==
    {Request(Targets(b), Payloads(b), Amounts(b)) :
        b \in SeqsUpTo(NestedCalls, MaxBatch)}

SendNested ==
    \E caller \in Callers : \E req \in NestedRequests :
        \E value \in AttachedValues(req) : ExecuteBatch(caller, value, req)

RefundNext == SendNested \/ Seal

RefundSpec == Init /\ [][RefundNext]_vars

\* C25: a batch called by the executor itself (whose receive() reverts) as
\* a sub-call of a batch that a caller attached the value to, with a
\* surplus to refund, its sub-calls having all succeeded, fails with the
\* transfer's revert data and leaves the state it was entered with; and a
\* transaction with a sub-call that failed so is reverted, the balances
\* and the storage being those before it and nothing logged.
RefundFailureRollsBack ==
    /\ \A c \in NestedCalls : \A caller \in Callers :
          c.target = Exec /\ balance[caller] >= c.amount =>
             LET st == Move(Chain, caller, Exec, c.amount)
                 r == CallAccount(st, Exec, Exec, c.data, c.amount)
             IN  r.locals.completed
                 /\ r.locals.finalBalance > r.locals.initialBalance =>
                       /\ ~r.ok
                       /\ r.data = Error("Direct payments not allowed")
                       /\ r.st = st
    /\ tx # NoTx /\ tx.locals.subData = Error("Direct payments not allowed") =>
          /\ ~tx.ok
          /\ balance = tx.pre.balance
          /\ storedData = tx.pre.storedData
          /\ tx.logs = <<>>

\* a transaction whose second sub-call was a nested batch that paid bob
\* and failed at its refund, after a first sub-call that had succeeded
RefundFailedAfterEffects ==
    /\ tx # NoTx
    /\ tx.locals.failedAt = 2
    /\ tx.locals.subData = Error("Direct payments not allowed")
    /\ tx.calldata.targets[2] = Exec
    /\ tx.calldata.data[2] = BatchCall(<<Bob>>, <<NoCalldata>>, <<1>>)
    /\ tx.calldata.amount[2] = 2

\* C26: whatever the signer has allowed the executor, a batch called by
\* another account that has the executor transfer the signer's tokens to
\* that account fails.
OnlyOwnersBatchMovesTokens ==
    \A token \in Tokens : \A other \in Callers \ {Signer} :
        ~CallAccount(Chain, other, Exec,
                     BatchCall(<<token>>,
                               <<[fn |-> "transferFrom", from |-> Signer,
                                  to |-> other, value |-> 1]>>,
                               <<0>>),
                     0).ok

(***************************************************************************)
(* A caller that does not wait for executeBatchTransaction() before        *)
(* adding to the list: addTransactionToList runs between two awaited       *)
(* steps of the call in progress, whose position it leaves alone.          *)
(***************************************************************************)
AddWhileExecuting ==
    \E t \in DirectTransactions :
        /\ execution.pc \in {"approving", "sending", "confirming", "mined"}
        /\ Len(transactionList) < MaxPending
        /\ transactionList' = Pushed(transactionList, t)
        /\ UNCHANGED <<mempool, approvalTransactionsList, approvals,
                       execution>>
        /\ UNCHANGED <<chain, script>>

InterleavedNext ==
    \/ CallAddTransaction
    \/ CallAddERC20Transfer
    \/ CallClear
    \/ CallExecute
    \/ AddWhileExecuting
    \/ \E token \in Tokens : AllowanceQueried(token)
    \/ \E token \in Tokens : ApproveSubmitted(token)
    \/ ApprovalFailed
    \/ BatchAssembled
    \/ BatchSubmitted
    \/ MineNext
    \/ BatchConfirmed

InterleavedSpec == ClientInit /\ [][InterleavedNext]_vars

\* entry is one of the sub-calls of the batch of the latest transaction
InBatchMined(entry) ==
    /\ tx # NoTx
    /\ \E k \in 1..Len(tx.calldata.targets) :
          /\ tx.calldata.targets[k] = entry.target
          /\ tx.calldata.data[k] = entry.data
          /\ tx.calldata.amount[k] = entry.value.n

\* C27: an entry leaves the list only in a call of
\* removeTransactionFromList or clearTransactionList, or when
\* executeBatchTransaction() clears the list after its batch was mined
\* with success, and then the entry was a sub-call of that batch.
EntriesLeaveBySubmissionOrRemoval ==
    [][\A i \in 1..Len(transactionList) :
          (\A j \in 1..Len(transactionList') :
              transactionList'[j] # transactionList[i]) =>
             \/ execution.pc = "idle" /\ execution' = Idle
             \/ /\ Confirms
                /\ execution.status
                /\ InBatchMined(transactionList[i])]_vars

====
